---- MODULE Spec2Model ----
(***************************************************************************)
(* A model of the PDF page extractor: the App component's session state    *)
(* and handlers (App.tsx), the PDF service (parsePDF, extractPages) and    *)
(* the query matcher (suggestPagesByQuery).                                *)
(*                                                                         *)
(* JavaScript values.  A nullable value is a sequence of length at most    *)
(* one: <<>> is null and <<v>> is v.  A JS value that can come out of      *)
(* JSON.parse is a record [type, isArray, n, half]: type is what typeof    *)
(* answers, isArray what Array.isArray answers, and a number is n, or      *)
(* n + 0.5 when half is TRUE (so 1.5 is [n |-> 1, half |-> TRUE]).         *)
(* A JS Set is the sequence of its elements in insertion order, without    *)
(* duplicates: that is the order Array.from reads it in.                   *)
(***************************************************************************)
EXTENDS Integers, Sequences, FiniteSets, Bags, TLC

VARIABLES status, pdfData, selectedIndices, aiQuery, isAiLoading, error,
          loads, searches, exports, download, aiResponse, aiResult

\* status, pdfData, selectedIndices, aiQuery, isAiLoading, error: the App
\*   component's state
\* loads: the files whose parsePDF call has not settled (a bag)
\* searches: the number of suggestPagesByQuery calls that have not settled
\* exports: the extractPages calls that have not settled, each given as what it
\*   will settle to, which its arguments decide (a bag)
\* download: the document the step just taken made the browser download
\*   (link.click()), null when it downloaded none
\* aiResponse, aiResult: a direct call of suggestPagesByQuery: what the request
\*   settles to and what the call has settled to (SpecQuery)
vars == <<status, pdfData, selectedIndices, aiQuery, isAiLoading, error,
          loads, searches, exports, download, aiResponse, aiResult>>

appVars == <<status, pdfData, selectedIndices, aiQuery, isAiLoading, error,
             loads, searches, exports, download>>

-----------------------------------------------------------------------------
(* Bounds of the model. *)

\* physical pages of an uploaded document
MaxPages == 2
\* elements of a JSON array the session's model responses carry
MaxSuggested == 1
\* exports in flight at once
MaxExports == 1
\* lexemes of a response text handed to suggestPagesByQuery directly
MaxTextLen == 5

-----------------------------------------------------------------------------
(* JavaScript values *)

Null == <<>>
Some(v) == <<v>>

Num(k) == [type |-> "number", isArray |-> FALSE, n |-> k, half |-> FALSE]
NumHalf(k) == [type |-> "number", isArray |-> FALSE, n |-> k, half |-> TRUE]
JsString == [type |-> "string", isArray |-> FALSE, n |-> 0, half |-> FALSE]
JsBoolean == [type |-> "boolean", isArray |-> FALSE, n |-> 0, half |-> FALSE]
JsNull == [type |-> "object", isArray |-> FALSE, n |-> 0, half |-> FALSE]
JsArray == [type |-> "object", isArray |-> TRUE, n |-> 0, half |-> FALSE]

IsInteger(v) == v.type = "number" /\ ~v.half

\* twice the value of a number: a - b has the sign of Twice(a) - Twice(b)
Twice(v) == 2 * v.n + (IF v.half THEN 1 ELSE 0)

Range(s) == {s[k] : k \in 1..Len(s)}

\* new Set(iterable): first occurrences, in order
RECURSIVE NewSet(_)
NewSet(s) ==
    IF s = <<>> THEN <<>>
    ELSE LET init == NewSet(SubSeq(s, 1, Len(s) - 1))
             last == s[Len(s)]
         IN  IF last \in Range(init) THEN init ELSE Append(init, last)

-----------------------------------------------------------------------------
(* pdfService: parsePDF and extractPages *)

\* A file as the two libraries see it: pdf.js opens it (parses) or rejects it;
\* it has numPages physical pages; getContext('2d') answers null on the
\* canvases of the pages in noContext; pdf-lib loads its bytes (assembles) or
\* throws.
Files ==
    {[parses |-> FALSE, numPages |-> 0, noContext |-> {}, assembles |-> FALSE]}
    \cup UNION {{[parses |-> TRUE, numPages |-> p, noContext |-> nc,
                  assembles |-> a] : nc \in SUBSET (1..p), a \in BOOLEAN} :
                p \in 1..MaxPages}

\* the preview pushed for physical page i
PagePreview(i) == [index |-> i - 1]

\* the loop over i = 1 .. pdf.numPages, from page i on, appending to pages
RECURSIVE RenderPages(_, _, _)
RenderPages(file, i, pages) ==
    IF i > file.numPages THEN pages
    ELSE RenderPages(file, i + 1,
             IF i \notin file.noContext THEN Append(pages, PagePreview(i))
             ELSE pages)

\* the bytes kept for extraction: what pdf-lib will find in them
RawBytes(file) == [numPages |-> file.numPages, assembles |-> file.assembles]

\* parsePDF(file): rejected, or resolved with the PDFData
parsePDF(file) ==
    IF ~file.parses THEN [ok |-> FALSE, data |-> Null]
    ELSE [ok |-> TRUE,
          data |-> Some([pages |-> RenderPages(file, 1, <<>>),
                         rawBytes |-> RawBytes(file)])]

\* copyPages finds a source page for an index: an integer within the source
ValidIndex(originalBytes, v) ==
    IsInteger(v) /\ 0 <= v.n /\ v.n < originalBytes.numPages

\* the pages copied and added, in the order of pageIndices
CopiedPages(pageIndices) == [k \in 1..Len(pageIndices) |-> pageIndices[k].n]

\* extractPages with copyPages passing over the indices that name no page
MutExtractPages(originalBytes, pageIndices) ==
    IF ~originalBytes.assembles THEN [ok |-> FALSE, doc |-> <<>>]
    ELSE [ok |-> TRUE,
          doc |-> CopiedPages(SelectSeq(pageIndices,
                      LAMBDA v : ValidIndex(originalBytes, v)))]

\* extractPages(originalBytes, pageIndices): rejected, or resolved with the new
\* document, given as the source page numbers of its pages in order
extractPages(originalBytes, pageIndices) ==
    IF ~originalBytes.assembles THEN [ok |-> FALSE, doc |-> <<>>]
    ELSE IF \E k \in 1..Len(pageIndices) :
                ~ValidIndex(originalBytes, pageIndices[k])
         THEN [ok |-> FALSE, doc |-> <<>>]
         ELSE [ok |-> TRUE, doc |-> CopiedPages(pageIndices)]

-----------------------------------------------------------------------------
(* geminiService: suggestPagesByQuery *)

\* A response text is a sequence of JSON lexemes.
Brackets == {"[", "]", ","}
Scalars == {"0", "7", "1.5", "\"x\"", "true", "null"}

LexemeValue(tok) ==
    CASE tok = "0" -> Num(0)
      [] tok = "7" -> Num(7)
      [] tok = "1.5" -> NumHalf(1)
      [] tok = "\"x\"" -> JsString
      [] tok = "true" -> JsBoolean
      [] OTHER -> JsNull

Unparsed == [ok |-> FALSE, next |-> 0, value |-> JsNull, items |-> <<>>]

\* JSON.parse, from lexeme i of text on: one scalar, or "[" values separated
\* by "," "]"; next is the place after the value, items the elements of an
\* array value
RECURSIVE ParseValue(_, _), ParseItems(_, _)
ParseValue(text, i) ==
    IF i > Len(text) THEN Unparsed
    ELSE IF text[i] \in Scalars
         THEN [ok |-> TRUE, next |-> i + 1, value |-> LexemeValue(text[i]),
               items |-> <<>>]
    ELSE IF text[i] # "[" THEN Unparsed
    ELSE IF i + 1 <= Len(text) /\ text[i + 1] = "]"
         THEN [ok |-> TRUE, next |-> i + 2, value |-> JsArray, items |-> <<>>]
    ELSE LET r == ParseItems(text, i + 1)
         IN  IF r.ok THEN [r EXCEPT !.value = JsArray] ELSE Unparsed

ParseItems(text, i) ==
    LET v == ParseValue(text, i)
    IN  IF ~v.ok \/ v.next > Len(text) THEN Unparsed
        ELSE IF text[v.next] = "]"
             THEN [ok |-> TRUE, next |-> v.next + 1, value |-> JsArray,
                   items |-> <<v.value>>]
        ELSE IF text[v.next] # "," THEN Unparsed
        ELSE LET r == ParseItems(text, v.next + 1)
             IN  IF r.ok THEN [r EXCEPT !.items = <<v.value>> \o r.items]
                 ELSE Unparsed

\* JSON.parse(text): throws (ok FALSE) unless the whole text is one value
JSONParse(text) ==
    LET r == ParseValue(text, 1)
    IN  IF r.ok /\ r.next = Len(text) + 1 THEN r ELSE Unparsed

\* the filter testing Number.isInteger(item)
MutKeepItem(item) == IsInteger(item)

\* the filter's test of one item
KeepItem(item) == item.type = "number"

\* parsed.filter(...)
RECURSIVE FilterItems(_)
FilterItems(items) ==
    IF items = <<>> THEN <<>>
    ELSE (IF KeepItem(Head(items)) THEN <<Head(items)>> ELSE <<>>)
         \o FilterItems(Tail(items))

\* what generateContent settles to: it rejects, or it resolves with a response
\* whose text is undefined (Null) or a text
Rejected == [rejected |-> TRUE, text |-> Null]
Resolved(text) == [rejected |-> FALSE, text |-> text]

\* suggestPagesByQuery without the try around JSON.parse
MutSuggestPagesByQuery(response) ==
    IF response.rejected THEN [ok |-> FALSE, list |-> <<>>]
    ELSE IF response.text = Null \/ response.text = Some(<<>>)
         THEN [ok |-> TRUE, list |-> <<>>]
    ELSE LET parsed == JSONParse(response.text[1])
         IN  IF ~parsed.ok THEN [ok |-> FALSE, list |-> <<>>]
             ELSE IF parsed.value.isArray
                  THEN [ok |-> TRUE, list |-> FilterItems(parsed.items)]
                  ELSE [ok |-> TRUE, list |-> <<>>]

\* suggestPagesByQuery, given what generateContent settles to: it throws
\* (ok FALSE) or resolves with a list
suggestPagesByQuery(response) ==
    IF response.rejected THEN [ok |-> FALSE, list |-> <<>>]
    ELSE IF response.text = Null \/ response.text = Some(<<>>)
         THEN [ok |-> TRUE, list |-> <<>>]
    ELSE LET parsed == JSONParse(response.text[1])
         IN  IF ~parsed.ok THEN [ok |-> TRUE, list |-> <<>>]
             ELSE IF parsed.value.isArray
                  THEN [ok |-> TRUE, list |-> FilterItems(parsed.items)]
                  ELSE [ok |-> TRUE, list |-> <<>>]

\* every text of at most MaxTextLen lexemes
Texts == UNION {[1..len -> Brackets \cup Scalars] : len \in 0..MaxTextLen}
Responses == {Rejected, Resolved(Null)} \cup {Resolved(Some(t)) : t \in Texts}

\* the text of a JSON array of the given scalars
RECURSIVE Joined(_)
Joined(elems) ==
    IF Len(elems) <= 1 THEN elems
    ELSE <<Head(elems), ",">> \o Joined(Tail(elems))
ArrayText(elems) == <<"[">> \o Joined(elems) \o <<"]">>

\* the responses the model gives within a session: arrays of at most
\* MaxSuggested elements, a text that is no array, a text that does not parse,
\* no text, and a failed request
SessionScalars == {"0", "7", "\"x\""}
SessionTexts ==
    {ArrayText(e) : e \in UNION {[1..len -> SessionScalars] : len \in 0..MaxSuggested}}
    \cup {<<"null">>, <<"[">>}
SessionResponses ==
    {Rejected, Resolved(Null)} \cup {Resolved(Some(t)) : t \in SessionTexts}
SessionOutcomes == {suggestPagesByQuery(r) : r \in SessionResponses}

-----------------------------------------------------------------------------
(* App: state and handlers *)

LoadFailed == "Failed to process PDF. Please try another file."
SearchFailed == "AI Search failed. Please try again."
ExportFailed == "Failed to generate PDF."

\* what the user may type into the search box
Queries == {"", "invoices"}
Trim(q) == IF q = " " THEN "" ELSE q

\* the comparator of the export's sort: negative, zero or positive as a - b
Compare(a, b) == Twice(a) - Twice(b)

RECURSIVE InsertSorted(_, _)
InsertSorted(sorted, v) ==
    IF sorted = <<>> THEN <<v>>
    ELSE IF Compare(v, Head(sorted)) < 0 THEN <<v>> \o sorted
    ELSE <<Head(sorted)>> \o InsertSorted(Tail(sorted), v)

\* array.sort(compare)
RECURSIVE Sort(_)
Sort(s) ==
    IF s = <<>> THEN <<>>
    ELSE InsertSorted(Sort(SubSeq(s, 1, Len(s) - 1)), s[Len(s)])

\* Array.from(selectedIndices), not sorted
MutSortedIndices(selected) == selected

\* Array.from(selectedIndices).sort((a, b) => a - b)
SortedIndices(selected) == Sort(selected)

\* the updater without the delete
MutToggle(prev, index) ==
    IF index \in Range(prev) THEN prev ELSE Append(prev, index)

\* the updater of togglePageSelection: prev => next
Toggle(prev, index) ==
    IF index \in Range(prev)
    THEN SelectSeq(prev, LAMBDA v : v # index)
    ELSE Append(prev, index)

\* handleSelectAll clearing whenever anything is selected
MutSelectAll(data, selected) ==
    IF Len(selected) > 0 THEN <<>>
    ELSE NewSet([k \in 1..Len(data.pages) |-> Num(data.pages[k].index)])

\* what handleSelectAll sets the selection to, a document being loaded
SelectAll(data, selected) ==
    IF Len(selected) = Len(data.pages) THEN <<>>
    ELSE NewSet([k \in 1..Len(data.pages) |-> Num(data.pages[k].index)])

\* the control bar and the page grid are rendered
GridShown == pdfData # Null /\ status \in {"READY", "PROCESSING"}

\* the dropzone is rendered
DropzoneShown == status = "IDLE"

\* one of the two export buttons is rendered and enabled
ExportClickable ==
    \/ GridShown /\ Len(selectedIndices) # 0 /\ status # "PROCESSING"
    \/ Len(selectedIndices) > 0 /\ status = "READY"

AppInit ==
    /\ status = "IDLE"
    /\ pdfData = Null
    /\ selectedIndices = <<>>
    /\ aiQuery = ""
    /\ isAiLoading = FALSE
    /\ error = Null
    /\ loads = EmptyBag
    /\ searches = 0
    /\ exports = EmptyBag
    /\ download = Null

Init == AppInit /\ aiResponse = Rejected /\ aiResult = Null

\* handleFileSelect up to its await
handleFileSelect(file) ==
    /\ DropzoneShown
    /\ status' = "LOADING"
    /\ error' = Null
    /\ loads' = loads (+) SetToBag({file})
    /\ download' = Null
    /\ UNCHANGED <<pdfData, selectedIndices, aiQuery, isAiLoading, searches,
                   exports, aiResponse, aiResult>>

\* handleFileSelect from its await on: parsePDF has settled
handleFileSelectSettled(file) ==
    /\ BagIn(file, loads)
    /\ loads' = loads (-) SetToBag({file})
    /\ LET r == parsePDF(file)
       IN  IF r.ok
           THEN /\ pdfData' = r.data
                /\ status' = "READY"
                /\ selectedIndices' = <<>>
                /\ UNCHANGED error
           ELSE /\ error' = Some(LoadFailed)
                /\ status' = "IDLE"
                /\ UNCHANGED <<pdfData, selectedIndices>>
    /\ download' = Null
    /\ UNCHANGED <<aiQuery, isAiLoading, searches, exports, aiResponse,
                   aiResult>>

togglePageSelection(index) ==
    /\ GridShown
    /\ \E k \in 1..Len(pdfData[1].pages) : pdfData[1].pages[k].index = index
    /\ selectedIndices' = Toggle(selectedIndices, Num(index))
    /\ download' = Null
    /\ UNCHANGED <<status, pdfData, aiQuery, isAiLoading, error, loads,
                   searches, exports, aiResponse, aiResult>>

handleSelectAll ==
    /\ GridShown
    /\ selectedIndices' = SelectAll(pdfData[1], selectedIndices)
    /\ download' = Null
    /\ UNCHANGED <<status, pdfData, aiQuery, isAiLoading, error, loads,
                   searches, exports, aiResponse, aiResult>>

\* the search box's onChange
setAiQuery(q) ==
    /\ GridShown
    /\ q # aiQuery
    /\ aiQuery' = q
    /\ download' = Null
    /\ UNCHANGED <<status, pdfData, selectedIndices, isAiLoading, error,
                   loads, searches, exports, aiResponse, aiResult>>

\* handleAiSearch up to its await
handleAiSearch ==
    /\ GridShown
    /\ ~(Trim(aiQuery) = "" \/ pdfData = Null \/ isAiLoading)
    /\ isAiLoading' = TRUE
    /\ searches' = searches + 1
    /\ download' = Null
    /\ UNCHANGED <<status, pdfData, selectedIndices, aiQuery, error, loads,
                   exports, aiResponse, aiResult>>

\* handleAiSearch from its await on: suggestPagesByQuery has settled
handleAiSearchSettled(outcome) ==
    /\ searches > 0
    /\ searches' = searches - 1
    /\ IF outcome.ok
       THEN selectedIndices' = NewSet(outcome.list) /\ UNCHANGED error
       ELSE error' = Some(SearchFailed) /\ UNCHANGED selectedIndices
    /\ isAiLoading' = FALSE
    /\ download' = Null
    /\ UNCHANGED <<status, pdfData, aiQuery, loads, exports, aiResponse,
                   aiResult>>

\* handleDownload up to its await
handleDownload ==
    /\ ExportClickable
    /\ ~(pdfData = Null \/ Len(selectedIndices) = 0)
    /\ BagCardinality(exports) < MaxExports
    /\ status' = "PROCESSING"
    /\ exports' = exports (+) SetToBag({extractPages(pdfData[1].rawBytes,
                                         SortedIndices(selectedIndices))})
    /\ download' = Null
    /\ UNCHANGED <<pdfData, selectedIndices, aiQuery, isAiLoading, error,
                   loads, searches, aiResponse, aiResult>>

\* handleDownload from its await on: extractPages has settled as r
handleDownloadSettled(r) ==
    /\ BagIn(r, exports)
    /\ exports' = exports (-) SetToBag({r})
    /\ IF r.ok
       THEN download' = Some(r.doc) /\ UNCHANGED error
       ELSE error' = Some(ExportFailed) /\ download' = Null
    /\ status' = "READY"
    /\ UNCHANGED <<pdfData, selectedIndices, aiQuery, isAiLoading, loads,
                   searches, aiResponse, aiResult>>

reset ==
    /\ GridShown
    /\ pdfData' = Null
    /\ selectedIndices' = <<>>
    /\ status' = "IDLE"
    /\ aiQuery' = ""
    /\ error' = Null
    /\ download' = Null
    /\ UNCHANGED <<isAiLoading, loads, searches, exports, aiResponse,
                   aiResult>>

Next ==
    \/ \E file \in Files : handleFileSelect(file)
    \/ \E file \in Files : handleFileSelectSettled(file)
    \/ \E index \in 0..(MaxPages - 1) : togglePageSelection(index)
    \/ handleSelectAll
    \/ \E q \in Queries : setAiQuery(q)
    \/ handleAiSearch
    \/ \E outcome \in SessionOutcomes : handleAiSearchSettled(outcome)
    \/ handleDownload
    \/ \E r \in BagToSet(exports) : handleDownloadSettled(r)
    \/ reset

Spec == Init /\ [][Next]_vars

-----------------------------------------------------------------------------
(* suggestPagesByQuery called on every response *)

QueryInit == AppInit /\ aiResponse \in Responses /\ aiResult = Null

callSuggestPagesByQuery ==
    /\ aiResult = Null
    /\ aiResult' = Some(suggestPagesByQuery(aiResponse))
    /\ UNCHANGED <<appVars, aiResponse>>

QueryNext == callSuggestPagesByQuery

SpecQuery == QueryInit /\ [][QueryNext]_vars

-----------------------------------------------------------------------------
(* The claims *)

NothingOutstanding ==
    BagCardinality(loads) = 0 /\ searches = 0 /\ BagCardinality(exports) = 0

Outstanding == BagCardinality(loads) + searches + BagCardinality(exports)

\* the selection as a set
Selected == Range(selectedIndices)

\* every physical page of the loaded document got a preview
AllPagesRendered == Len(pdfData[1].pages) = pdfData[1].rawBytes.numPages

\* C1: in every reachable state with a document loaded, every selected value is
\* an index of one of its page previews: an integer in 0 .. pages.length - 1.
\* Stated, as the claim has it, of the documents whose every page has a
\* preview, so that a violation does not rest on the previews parsePDF skips;
\* the code breaks it.
SelectionWithinPages ==
    (pdfData # Null /\ AllPagesRendered) =>
        \A v \in Selected :
            IsInteger(v) /\ 0 <= v.n /\ v.n < Len(pdfData[1].pages)

\* C2: whenever parsePDF has resolved, the pages array has one record per
\* physical page and pages[k].index = k, counting k from 0 (TLA+ sequences
\* count from 1), also when a canvas gave no 2D context.
\* (Stated as the claim has it; the code breaks it.)
PagesIndexedInOrder ==
    pdfData # Null =>
        /\ Len(pdfData[1].pages) = pdfData[1].rawBytes.numPages
        /\ \A k \in 1..Len(pdfData[1].pages) : pdfData[1].pages[k].index = k - 1

\* C3: at most one of the asynchronous operations (a load, an AI query, an
\* export) is outstanding in any reachable state.
\* (Stated as the claim has it; the code breaks it.)
AtMostOneOutstanding == Outstanding <= 1

\* the session shows controls that start an operation again: the dropzone, or
\* the control bar and grid of a loaded document that is not being exported
Stable ==
    \/ status = "IDLE"
    \/ status = "READY" /\ pdfData # Null

\* C7: after a failure, once nothing is outstanding any more, the session is
\* idle with the dropzone or ready with a loaded document.
\* (Stated as the claim has it; the code breaks it.)
StableAfterFailure == (error # Null /\ NothingOutstanding) => Stable

\* C11: in every reachable state, status READY or PROCESSING means that a
\* document is loaded (pdfData is not null) and status IDLE that none is, so
\* that the session always renders the dropzone or the page grid.
\* (Stated as the claim has it; the code breaks it.)
StatusMatchesDocument ==
    /\ status \in {"READY", "PROCESSING"} => pdfData # Null
    /\ status = "IDLE" => pdfData = Null

\* the values handleDownload hands to extractPages all name a page of the
\* source, and pdf-lib loads the source
Extractable(data, selected) ==
    /\ data.rawBytes.assembles
    /\ \A v \in Range(selected) : ValidIndex(data.rawBytes, v)

\* the promise r is one more time in flight after the step
Added(r) ==
    /\ BagIn(r, exports')
    /\ CopiesIn(r, exports') = CopiesIn(r, exports) + 1

Failure == [ok |-> FALSE, doc |-> <<>>]

\* C6: an export whose selection holds a value that is no page of the source
\* (or whose source pdf-lib cannot load) settles as a failure; the step that
\* handles the failure downloads nothing, sets the error to 'Failed to generate
\* PDF.', returns the status to READY and leaves the selection as it is, as the
\* step that started the export did.
FailedExportKeepsSelection ==
    [][/\ (handleDownload /\ ~Extractable(pdfData[1], selectedIndices)) =>
              (Added(Failure) /\ selectedIndices' = selectedIndices)
       /\ \A r \in BagToSet(exports) :
              (handleDownloadSettled(r) /\ ~r.ok) =>
                  /\ download' = Null
                  /\ error' = Some(ExportFailed)
                  /\ status' = "READY"
                  /\ selectedIndices' = selectedIndices]_vars

\* a failed export has been handled and the selection still holds the value
\* that is no page of the document
FailedExportWitness ==
    /\ error = Some(ExportFailed)
    /\ status = "READY"
    /\ pdfData # Null
    /\ pdfData[1].rawBytes.assembles
    /\ \E v \in Selected : ~ValidIndex(pdfData[1].rawBytes, v)
    /\ download = Null
    /\ NothingOutstanding

Ascending(doc) == \A j, k \in 1..Len(doc) : j < k => doc[j] < doc[k]

\* C8: for a loaded document and a non-empty selection S of valid indices, the
\* export started by handleDownload settles with a document of exactly |S|
\* pages, the source pages named by S in strictly ascending order, each once;
\* and the step that handles a settled export downloads that document.
ExportInAscendingOrder ==
    [][/\ (handleDownload /\ Extractable(pdfData[1], selectedIndices)) =>
              \E r \in BagToSet(exports') :
                  /\ Added(r)
                  /\ r.ok
                  /\ Len(r.doc) = Len(selectedIndices)
                  /\ Ascending(r.doc)
                  /\ Range(r.doc) = {v.n : v \in Selected}
       /\ \A r \in BagToSet(exports) :
              (handleDownloadSettled(r) /\ r.ok) => download' = Some(r.doc)]_vars

\* pages 1 and 0 were selected in that order, and the export downloaded
\* original pages 0 and 1 in this order
ExportWitness ==
    /\ selectedIndices = <<Num(1), Num(0)>>
    /\ download = Some(<<0, 1>>)

\* every page preview's index, as handleSelectAll selects them
AllPages(data) == {Num(data.pages[k].index) : k \in 1..Len(data.pages)}

\* two clicks on select-all in a row: the second one reads the selection the
\* first one has set
SelectAllTwice(data, selected) == SelectAll(data, SelectAll(data, selected))

\* C9 as the claim has it: whatever the selection of a loaded document, a
\* click on select-all followed by a second one leaves the selection empty.
\* (The code breaks it.)
SelectAllTwiceClears ==
    GridShown => SelectAllTwice(pdfData[1], selectedIndices) = <<>>

\* C9, amended: a click on select-all followed by a second one leaves the
\* selection empty when the selection before the first click does not have
\* exactly pages.length elements (or there are no previews at all); when it
\* has, the two clicks leave every page selected.
SelectAllTwiceTogglesAll ==
    GridShown =>
        LET twice == SelectAllTwice(pdfData[1], selectedIndices)
            n == Len(pdfData[1].pages)
        IN  IF Len(selectedIndices) = n /\ n > 0
            THEN Range(twice) = AllPages(pdfData[1]) /\ Len(twice) = n
            ELSE twice = <<>>

\* one of the two pages of a document is selected: the first click on
\* select-all selects both, the second one none
SelectAllWitness ==
    /\ GridShown
    /\ Len(pdfData[1].pages) = 2
    /\ Len(selectedIndices) = 1
    /\ Len(SelectAll(pdfData[1], selectedIndices)) = 2
    /\ SelectAllTwice(pdfData[1], selectedIndices) = <<>>

\* C10: a click on a page changes the membership of that page's index only,
\* and a second click on it gives the selection of before the first.
ToggleIsInvolution ==
    [][\A index \in 0..(MaxPages - 1) :
           togglePageSelection(index) =>
               LET i == Num(index)
                   once == Range(selectedIndices')
                   twice == Range(Toggle(selectedIndices', i))
               IN  /\ (i \in once) = (i \notin Selected)
                   /\ once \ {i} = Selected \ {i}
                   /\ twice = Selected
                   /\ Len(selectedIndices') = Cardinality(once)]_vars

\* page 1 and then page 0 of a two-page document have been clicked on: the
\* selection holds them in the order of the clicks
ToggleWitness ==
    /\ GridShown
    /\ Len(pdfData[1].pages) = 2
    /\ selectedIndices = <<Num(1), Num(0)>>
    /\ NothingOutstanding
    /\ error = Null

-----------------------------------------------------------------------------
(* The claims about suggestPagesByQuery, under SpecQuery *)

\* the call has settled as a list
ResolvedWith(list) == aiResult = Some([ok |-> TRUE, list |-> list])

\* the response text is missing, or does not parse, or parses as no array
NoArray(response) ==
    \/ response.text = Null
    \/ response.text = Some(<<>>)
    \/ LET parsed == JSONParse(response.text[1])
       IN  ~parsed.ok \/ ~parsed.value.isArray

ArrayItems(response) ==
    IF response.rejected \/ NoArray(response) THEN <<>>
    ELSE JSONParse(response.text[1]).items

\* C5 as the claim has it: when the response parses as an array, the call
\* resolves with its integer elements in their order, and with nothing else.
\* (The code breaks it.)
OnlyIntegersKept ==
    (aiResult # Null /\ ~aiResponse.rejected /\ ~NoArray(aiResponse)) =>
        ResolvedWith(SelectSeq(ArrayItems(aiResponse), IsInteger))

\* C5, amended: when the response parses as an array, the call resolves with
\* its elements of type number in their order, 1.5 as much as 1, and drops
\* every other element.
OnlyNumbersKept ==
    (aiResult # Null /\ ~aiResponse.rejected /\ ~NoArray(aiResponse)) =>
        /\ ResolvedWith(SelectSeq(ArrayItems(aiResponse),
                                  LAMBDA v : v.type = "number"))
        /\ \A v \in Range(ArrayItems(aiResponse)) :
               (v \in Range(aiResult[1].list)) =
                   (v \in {Num(0), Num(7), NumHalf(1)})

\* the call was given ["x", 1.5] and resolved with [1.5]
FilterWitness ==
    /\ aiResponse = Resolved(Some(<<"[", "\"x\"", ",", "1.5", "]">>))
    /\ ResolvedWith(<<NumHalf(1)>>)

====
